---- MODULE Spec2Model ----
(***************************************************************************)
(* A model of the software rasterizer of src/main.cpp: the render loop of  *)
(* main, Device::clear / render / drawTriangle / processScanline /         *)
(* drawPoint / putPixel / present, and the depth buffer.                   *)
(*                                                                         *)
(* float values are modelled as exact rationals <<n, d>> in lowest terms   *)
(* with d > 0 (rounding error of single precision is not modelled; NaN and *)
(* infinities do not arise from the finite inputs used here).  uint16_t    *)
(* values are integers in 0 .. U16 - 1 and wrap modulo U16.                *)
(*                                                                         *)
(* glm::project and computeNDotL (matrix products, square roots) are not   *)
(* computed: their results, the three screen-space vertices of a face and  *)
(* its light intensity, are inputs drawn from the set Faces(scene).        *)
(***************************************************************************)
EXTENDS Integers, Sequences, FiniteSets

\* ------------------------------------------------------------- bounds
\* Viewport of the Device (the constructor's winWidth, winHeight).
m_winWidth == 4
m_winHeight == 4
\* The scene's meshes hold at most MaxFaces faces in all.
MaxFaces == 2
\* The history counter scanCount stops counting here (it only saturates:
\* the program's own counters are never capped).
CountCap == 16

\* ---------------------------------------------------- program constants
\* uint16_t holds 0 .. U16 - 1.
U16 == 65536
\* Stands for std::numeric_limits<float>::max() (3.4028235e38), the depth
\* buffer's reset value: larger than every depth of the model's inputs.
FloatMax == 1000000

\* --------------------------------------------------- float arithmetic
Abs(n) == IF n < 0 THEN -n ELSE n

RECURSIVE Gcd(_, _)
Gcd(a, b) == IF b = 0 THEN a ELSE Gcd(b, a % b)

\* The rational n/d in lowest terms with a positive denominator.
Q(n, d) ==
    LET g == Gcd(Abs(n), Abs(d))
        s == IF d < 0 THEN -1 ELSE 1
    IN  <<(s * n) \div g, (s * d) \div g>>

Zero == <<0, 1>>
One == <<1, 1>>
\* An integer (a uint16_t or int operand) converted to float.
ToFloat(n) == <<n, 1>>

RAdd(a, b) == Q(a[1] * b[2] + b[1] * a[2], a[2] * b[2])
RSub(a, b) == Q(a[1] * b[2] - b[1] * a[2], a[2] * b[2])
RMul(a, b) == Q(a[1] * b[1], a[2] * b[2])
RLt(a, b) == a[1] * b[2] < b[1] * a[2]
\* a / b.  A zero divisor gives an IEEE infinity or NaN in the program; the
\* rationals have neither, and Zero stands in for it.  Every division of
\* the model records its divisor in `divisors`, where a zero shows.
RDiv(a, b) == IF b[1] = 0 THEN Zero ELSE Q(a[1] * b[2], a[2] * b[1])

\* Truncation toward zero, the value part of static_cast<uint16_t>(float).
Trunc(a) == IF a[1] >= 0 THEN a[1] \div a[2] ELSE -((-a[1]) \div a[2])

\* static_cast<uint16_t>(float).  A truncated value outside 0 .. U16 - 1 is
\* undefined behaviour; the build either wraps it modulo 2^16 (cvttss2si
\* and a 16-bit move) or saturates it (fcvtzu), as `castMode` says.
CastU16(a, mode) ==
    LET t == Trunc(a)
    IN  IF 0 <= t /\ t < U16 THEN t
        ELSE IF mode = "wrap" THEN t % U16
        ELSE IF t < 0 THEN 0 ELSE U16 - 1

\* std::clamp and std::lerp of lines 94-102.
clamp(v, lo, hi) == IF RLt(v, lo) THEN lo ELSE IF RLt(hi, v) THEN hi ELSE v
lerp(a, b, t) == RAdd(a, RMul(clamp(t, Zero, One), RSub(b, a)))

\* ------------------------------------------------------------- colours
Color4(r, g, b, a) == [r |-> r, g |-> g, b |-> b, a |-> a]
ClearColor == Color4(0, 0, 0, 255)
\* render's colour of a face: red for an even faceIdx, blue for an odd one.
FaceColor(idx) == IF idx % 2 = 0 THEN Color4(255, 0, 0, 255) ELSE Color4(0, 0, 255, 255)
\* A channel times the intensity, converted back to uint8_t.
Channel(ch, nDotL) == Trunc(RMul(ToFloat(ch), nDotL)) % 256
Shade(c, nDotL) ==
    Color4(Channel(c.r, nDotL), Channel(c.g, nDotL), Channel(c.b, nDotL), Channel(c.a, nDotL))

\* ------------------------------------------------------------- inputs
Vec3(x, y, z) == [x |-> x, y |-> y, z |-> z]
\* A projected face: pixelA, pixelB, pixelC and the face's intensity.
Tri(a, b, c, nDotL) == [A |-> a, B |-> b, C |-> c, ndotl |-> nDotL]

Pixels == 0 .. (m_winWidth * m_winHeight - 1)

VARIABLES
    pc,           \* where main is: poll, clear, render, scanline, pixel, present, exit
    castMode,     \* what the build does with an out-of-range float -> uint16_t cast
    scene,        \* which scene was loaded: names the faces it can produce
    meshes,       \* meshes[m]: the number of faces of mesh m
    m_depthBuffer,
    surface,      \* the SDL renderer's back buffer: the colour last drawn per pixel
    meshIdx, faceIdx,   \* render's position in its two loops
    tri,          \* drawTriangle's locals: v1, v2, v3, c, ndotl, dP1P2, dP1P3
    y,            \* drawTriangle's loop counter (uint16_t)
    scan,         \* processScanline's locals
    x,            \* processScanline's loop counter (uint16_t)
    \* history variables (written, never read by the program's actions)
    cands,        \* per pixel: the candidates putPixel received since the last clear
    frameLog,     \* the surface calls since the frame began: clear, draw, present
    lastPoint,    \* the last drawPoint call and what it did
    divisors,     \* the divisors of the divisions the last step executed
    submitted,    \* the (x, y) drawPoint got from the current drawTriangle call
    scanFirst, scanLast, scanCount, scanContig   \* the processScanline calls of it

vars == <<pc, castMode, scene, meshes, m_depthBuffer, surface, meshIdx, faceIdx, tri, y,
          scan, x, cands, frameLog, lastPoint, divisors, submitted,
          scanFirst, scanLast, scanCount, scanContig>>


\* ------------------------------------------------- the scene's faces
H(n) == Q(n, 10)
\* A face at depth 0.3; a face at depth 0.7 that overlaps it and points the
\* other way (its middle vertex on the left); and a face over the pixels of
\* the first whose depth runs from 0.3 to 1.0 and crosses 0.7.
TNear == Tri(Vec3(ToFloat(0), ToFloat(0), H(3)), Vec3(ToFloat(3), ToFloat(2), H(3)),
             Vec3(ToFloat(0), ToFloat(3), H(3)), One)
TFar == Tri(Vec3(ToFloat(2), ToFloat(3), H(7)), Vec3(ToFloat(2), ToFloat(0), H(7)),
            Vec3(ToFloat(0), ToFloat(2), H(7)), Q(1, 2))
TSlope == Tri(Vec3(ToFloat(3), ToFloat(2), H(10)), Vec3(ToFloat(0), ToFloat(3), H(8)),
              Vec3(ToFloat(0), ToFloat(0), H(3)), One)
\* Scenario 1 of the specification: a flat-topped face, intensity 1.0.
TScenario == Tri(Vec3(ToFloat(10), ToFloat(10), H(5)), Vec3(ToFloat(20), ToFloat(10), H(5)),
                 Vec3(ToFloat(15), ToFloat(20), H(5)), One)
\* A face whose top vertex is above the viewport (negative Y).
TNegY == Tri(Vec3(ToFloat(0), ToFloat(-2), H(5)), Vec3(ToFloat(3), ToFloat(1), H(5)),
             Vec3(ToFloat(0), ToFloat(2), H(5)), One)
\* A face left of the viewport (negative X).
TLeft == Tri(Vec3(ToFloat(-3), ToFloat(1), H(5)), Vec3(ToFloat(-1), ToFloat(2), H(5)),
             Vec3(ToFloat(-3), ToFloat(3), H(5)), One)
\* A face reaching beyond the right and the bottom edge of the viewport.
TBeyond == Tri(Vec3(ToFloat(1), ToFloat(1), H(4)), Vec3(ToFloat(7), ToFloat(2), H(4)),
               Vec3(ToFloat(1), ToFloat(5), H(4)), One)
\* A degenerate face: its three vertices on one row.
TDegenerate == Tri(Vec3(ToFloat(0), ToFloat(1), H(5)), Vec3(ToFloat(2), ToFloat(1), H(5)),
                   Vec3(ToFloat(1), ToFloat(1), H(5)), One)
\* A face with fractional coordinates and a flat bottom.
TFrac == Tri(Vec3(Q(1, 2), Q(1, 2), H(2)), Vec3(Q(7, 2), Q(5, 2), H(6)),
             Vec3(Q(1, 2), Q(5, 2), H(8)), One)
ScreenFaces == {TNear, TFar, TSlope, TScenario, TNegY, TLeft, TBeyond, TDegenerate, TFrac}

\* A face whose lowest vertex projects to row 65535, of zero width, and a
\* small face beside it.
TTall == Tri(Vec3(ToFloat(1), ToFloat(U16 - 2), H(5)), Vec3(ToFloat(1), ToFloat(U16 - 1), H(5)),
             Vec3(ToFloat(1), ToFloat(U16 - 1), H(5)), One)
TallFaces == {TTall, TNear}

\* The projected faces a scene can produce in a frame.
Faces(sc) == IF sc = "tall" THEN TallFaces ELSE ScreenFaces

RECURSIVE SumSeq(_)
SumSeq(s) == IF s = <<>> THEN 0 ELSE Head(s) + SumSeq(Tail(s))

\* The scenes (main reads meshes[0], so there is a first mesh): one empty
\* mesh, or meshes of at least one face each and at most MaxFaces in all.
MeshShapes ==
    {<<0>>} \cup
    {s \in UNION {[1 .. n -> 1 .. MaxFaces] : n \in 1 .. MaxFaces} : SumSeq(s) <= MaxFaces}

\* ----------------------------------------------------- initial states
NoTri == [v1 |-> Vec3(Zero, Zero, Zero), v2 |-> Vec3(Zero, Zero, Zero),
          v3 |-> Vec3(Zero, Zero, Zero), c |-> ClearColor, ndotl |-> Zero,
          dP1P2 |-> Zero, dP1P3 |-> Zero]
NoScan == [va |-> Vec3(Zero, Zero, Zero), vb |-> Vec3(Zero, Zero, Zero),
           vc |-> Vec3(Zero, Zero, Zero), vd |-> Vec3(Zero, Zero, Zero),
           gradient1 |-> Zero, gradient2 |-> Zero, sx |-> 0, ex |-> 0,
           z1 |-> Zero, z2 |-> Zero]
NoPoint == [p |-> Vec3(Zero, Zero, Zero), inView |-> FALSE, idx |-> -1, changed |-> FALSE]

\* The state main is in when it enters its loop: the Device constructed
\* (depth buffer at the float maximum), the scene loaded.
InitWith(sc, shapes, modes) ==
    /\ pc = "poll"
    /\ castMode \in modes
    /\ scene = sc
    /\ meshes \in shapes
    /\ m_depthBuffer = [i \in Pixels |-> ToFloat(FloatMax)]
    /\ surface = [i \in Pixels |-> ClearColor]
    /\ meshIdx = 1
    /\ faceIdx = 0
    /\ tri = NoTri
    /\ y = 0
    /\ scan = NoScan
    /\ x = 0
    /\ cands = [i \in Pixels |-> <<>>]
    /\ frameLog = <<>>
    /\ lastPoint = NoPoint
    /\ divisors = {}
    /\ submitted = {}
    /\ scanFirst = -1
    /\ scanLast = -1
    /\ scanCount = 0
    /\ scanContig = TRUE

Init == InitWith("screen", MeshShapes, {"wrap", "saturate"})
InitTall == InitWith("tall", {<<1>>}, {"wrap"})

rasterVars == <<tri, y, scan, x, submitted, scanFirst, scanLast, scanCount, scanContig>>
sinkVars == <<m_depthBuffer, surface, cands, lastPoint>>
sceneVars == <<castMode, scene, meshes>>

\* ------------------------------------------------------ the main loop
\* A loop that goes from the poll straight to render.
AfterPollNoClear(quit) == IF quit THEN "exit" ELSE "render"

\* Lines 557-566: one event is polled; SDL_QUIT leaves the loop, anything
\* else (or no event) goes on to clear.
AfterPoll(quit) == IF quit THEN "exit" ELSE "clear"

Poll ==
    /\ pc = "poll"
    /\ \E quit \in BOOLEAN : pc' = AfterPoll(quit)
    /\ divisors' = {}
    /\ UNCHANGED <<sceneVars, sinkVars, rasterVars, meshIdx, faceIdx, frameLog>>

\* The surface calls of a frame, consecutive draws written once.  A clear
\* that follows a present (or nothing) begins a new frame's log.
LogClear(log) ==
    IF log = <<>> \/ log[Len(log)] = "present" THEN <<"clear">> ELSE Append(log, "clear")
LogDraw(log) ==
    IF log # <<>> /\ log[Len(log)] = "draw" THEN log ELSE Append(log, "draw")

\* Device::clear, then the rotation update of lines 569-570 (the rotation
\* only feeds the projection, whose results are inputs here), then the
\* entry of Device::render.
Clear ==
    /\ pc = "clear"
    /\ surface' = [i \in Pixels |-> ClearColor]
    /\ m_depthBuffer' = [i \in Pixels |-> ToFloat(FloatMax)]
    /\ cands' = [i \in Pixels |-> <<>>]
    /\ frameLog' = LogClear(frameLog)
    /\ lastPoint' = NoPoint
    /\ pc' = "render"
    /\ meshIdx' = 1
    /\ faceIdx' = 0
    /\ tri' = NoTri
    /\ scan' = NoScan
    /\ y' = 0
    /\ x' = 0
    /\ submitted' = {}
    /\ scanFirst' = -1
    /\ scanLast' = -1
    /\ scanCount' = 0
    /\ scanContig' = TRUE
    /\ divisors' = {}
    /\ UNCHANGED sceneVars

\* Device::present.
Present ==
    /\ pc = "present"
    /\ frameLog' = Append(frameLog, "present")
    /\ pc' = "poll"
    /\ divisors' = {}
    /\ UNCHANGED <<sceneVars, sinkVars, rasterVars, meshIdx, faceIdx>>

\* -------------------------------------------- the depth-tested sink
\* A clipping test that forgets the upper bounds.
InViewportNoUpper(p) == ~RLt(p.x, Zero) /\ ~RLt(p.y, Zero)

\* drawPoint's clipping test, lines 230-232.
InViewport(p) ==
    /\ ~RLt(p.x, Zero)
    /\ ~RLt(p.y, Zero)
    /\ RLt(p.x, ToFloat(m_winWidth))
    /\ RLt(p.y, ToFloat(m_winHeight))

\* Depth tests gone wrong: the comparison turned round, left out, and made
\* to discard ties.
DiscardNearer(old, z) == RLt(z, old)
DiscardNever(old, z) == FALSE
DiscardOrEqual(old, z) == ~RLt(z, old)

\* putPixel's depth test, line 518.
Discard(old, z) == RLt(old, z)

\* putPixel's index, line 516.
PixelIndex(px, py) == px + py * m_winWidth

\* Device::putPixel.  An index outside the vector would be undefined
\* behaviour; no reachable state has one (C5), and for such an index the
\* operator only records it in lastPoint and leaves the buffers alone.
PutPixel(px, py, p, c) ==
    LET idx == PixelIndex(px, py)
        inside == idx \in Pixels
        old == IF inside THEN m_depthBuffer[idx] ELSE ToFloat(FloatMax)
        keep == Discard(old, p.z)
    IN  /\ m_depthBuffer' = IF inside /\ ~keep THEN [m_depthBuffer EXCEPT ![idx] = p.z]
                            ELSE m_depthBuffer
        /\ surface' = IF inside /\ ~keep THEN [surface EXCEPT ![idx] = c] ELSE surface
        /\ cands' = IF inside
                    THEN [cands EXCEPT ![idx] = Append(@, [z |-> p.z, c |-> c, fwd |-> ~keep])]
                    ELSE cands
        /\ frameLog' = IF keep THEN frameLog ELSE LogDraw(frameLog)
        /\ lastPoint' = [p |-> p, inView |-> TRUE, idx |-> idx,
                         changed |-> (m_depthBuffer' # m_depthBuffer \/ surface' # surface)]

\* Device::drawPoint.
DrawPoint(p, c) ==
    IF InViewport(p)
    THEN PutPixel(CastU16(p.x, castMode), CastU16(p.y, castMode), p, c)
    ELSE /\ UNCHANGED <<m_depthBuffer, surface, cands, frameLog>>
         /\ lastPoint' = [p |-> p, inView |-> FALSE, idx |-> -1, changed |-> FALSE]

\* ---------------------------------------------------- the rasterizer
\* The three compare-and-swap steps of lines 333-352.
Sort3(a, b, c) ==
    LET s1 == IF RLt(b.y, a.y) THEN <<b, a, c>> ELSE <<a, b, c>>
        s2 == IF RLt(s1[3].y, s1[2].y) THEN <<s1[1], s1[3], s1[2]>> ELSE s1
    IN  IF RLt(s2[2].y, s2[1].y) THEN <<s2[2], s2[1], s2[3]>> ELSE s2

\* An inverse slope, lines 376-384: its value and the divisor it used.
Slope(p, q) ==
    IF RLt(Zero, RSub(q.y, p.y))
    THEN [v |-> RDiv(RSub(q.x, p.x), RSub(q.y, p.y)), div |-> {RSub(q.y, p.y)}]
    ELSE [v |-> Zero, div |-> {}]

\* The orientation test of line 397: TRUE for the first case.
FirstCase(dP1P2, dP1P3) == RLt(dP1P3, dP1P2)

\* An edge gradient without its guard.
EdgeGradientUnguarded(yy, p, q) ==
    [v |-> RDiv(RSub(ToFloat(yy), p.y), RSub(q.y, p.y)), div |-> {RSub(q.y, p.y)}]

\* An edge gradient, lines 286-287: its value and the divisor it used.
EdgeGradient(yy, p, q) ==
    IF p.y # q.y
    THEN [v |-> RDiv(RSub(ToFloat(yy), p.y), RSub(q.y, p.y)), div |-> {RSub(q.y, p.y)}]
    ELSE [v |-> One, div |-> {}]

\* The per-pixel gradient of line 301.
PixelGradient(xx, sx, ex) ==
    [v |-> RDiv(ToFloat(xx - sx), ToFloat(ex - sx)), div |-> {ToFloat(ex - sx)}]

\* The four vertices drawTriangle hands to processScanline, lines 403-410
\* and 430-437.
Edges(t, yy) ==
    IF FirstCase(t.dP1P2, t.dP1P3)
    THEN IF RLt(ToFloat(yy), t.v2.y) THEN <<t.v1, t.v3, t.v1, t.v2>>
         ELSE <<t.v1, t.v3, t.v2, t.v3>>
    ELSE IF RLt(ToFloat(yy), t.v2.y) THEN <<t.v1, t.v2, t.v1, t.v3>>
         ELSE <<t.v2, t.v3, t.v1, t.v3>>

\* The bound of drawTriangle's loop, evaluated at every test.
LoopEnd(t) == CastU16(t.v3.y, castMode)

\* render's loops over the meshes and their faces, lines 478-509.
RenderNextMesh ==
    /\ pc = "render"
    /\ meshIdx <= Len(meshes)
    /\ faceIdx = meshes[meshIdx]
    /\ meshIdx' = meshIdx + 1
    /\ faceIdx' = 0
    /\ divisors' = {}
    /\ UNCHANGED <<pc, sceneVars, sinkVars, rasterVars, frameLog>>

RenderDone ==
    /\ pc = "render"
    /\ meshIdx > Len(meshes)
    /\ pc' = "present"
    /\ divisors' = {}
    /\ UNCHANGED <<sceneVars, sinkVars, rasterVars, meshIdx, faceIdx, frameLog>>

\* A face is projected (an input) and drawTriangle runs to its loop: the
\* sort, the intensity, the two inverse slopes, the loop's initialisation.
DrawTriangleBegin ==
    /\ pc = "render"
    /\ meshIdx <= Len(meshes)
    /\ faceIdx < meshes[meshIdx]
    /\ \E f \in Faces(scene) :
          LET s == Sort3(f.A, f.B, f.C)
              s12 == Slope(s[1], s[2])
              s13 == Slope(s[1], s[3])
          IN  /\ tri' = [v1 |-> s[1], v2 |-> s[2], v3 |-> s[3], c |-> FaceColor(faceIdx),
                         ndotl |-> f.ndotl, dP1P2 |-> s12.v, dP1P3 |-> s13.v]
              /\ divisors' = s12.div \cup s13.div
              /\ y' = CastU16(s[1].y, castMode)
    /\ pc' = "scanline"
    /\ submitted' = {}
    /\ scanFirst' = -1
    /\ scanLast' = -1
    /\ scanCount' = 0
    /\ scanContig' = TRUE
    /\ UNCHANGED <<sceneVars, sinkVars, meshIdx, faceIdx, frameLog, scan, x>>

\* The loop test holds: processScanline is entered and runs to its loop.
ScanlineEnter ==
    /\ pc = "scanline"
    /\ y <= LoopEnd(tri)
    /\ LET e == Edges(tri, y)
           g1 == EdgeGradient(y, e[1], e[2])
           g2 == EdgeGradient(y, e[3], e[4])
           sx == CastU16(lerp(e[1].x, e[2].x, g1.v), castMode)
           ex == CastU16(lerp(e[3].x, e[4].x, g2.v), castMode)
       IN  /\ scan' = [va |-> e[1], vb |-> e[2], vc |-> e[3], vd |-> e[4],
                       gradient1 |-> g1.v, gradient2 |-> g2.v, sx |-> sx, ex |-> ex,
                       z1 |-> lerp(e[1].z, e[2].z, g1.v), z2 |-> lerp(e[3].z, e[4].z, g2.v)]
           /\ x' = sx
           /\ divisors' = g1.div \cup g2.div
    /\ pc' = "pixel"
    /\ scanFirst' = IF scanCount = 0 THEN y ELSE scanFirst
    /\ scanContig' = (scanContig /\ (scanCount = 0 \/ y = scanLast + 1))
    /\ scanLast' = y
    /\ scanCount' = IF scanCount < CountCap THEN scanCount + 1 ELSE scanCount
    /\ UNCHANGED <<sceneVars, sinkVars, meshIdx, faceIdx, frameLog, tri, y, submitted>>

\* The loop test fails: drawTriangle returns and render counts the face.
TriangleDone ==
    /\ pc = "scanline"
    /\ y > LoopEnd(tri)
    /\ pc' = "render"
    /\ faceIdx' = faceIdx + 1
    /\ divisors' = {}
    /\ UNCHANGED <<sceneVars, sinkVars, rasterVars, meshIdx, frameLog>>

\* One turn of processScanline's loop: a candidate pixel goes to drawPoint.
PixelDraw ==
    /\ pc = "pixel"
    /\ x < scan.ex
    /\ LET g == PixelGradient(x, scan.sx, scan.ex)
           z == lerp(scan.z1, scan.z2, g.v)
       IN  /\ DrawPoint(Vec3(ToFloat(x), ToFloat(y), z), Shade(tri.c, tri.ndotl))
           /\ divisors' = g.div
    /\ submitted' = submitted \cup {<<x, y>>}
    /\ x' = (x + 1) % U16
    /\ UNCHANGED <<pc, sceneVars, meshIdx, faceIdx, tri, y, scan,
                   scanFirst, scanLast, scanCount, scanContig>>

\* processScanline's loop ends; drawTriangle's y++.
ScanlineExit ==
    /\ pc = "pixel"
    /\ x >= scan.ex
    /\ y' = (y + 1) % U16
    /\ pc' = "scanline"
    /\ divisors' = {}
    /\ UNCHANGED <<sceneVars, sinkVars, meshIdx, faceIdx, frameLog, tri, scan, x,
                   submitted, scanFirst, scanLast, scanCount, scanContig>>

Next ==
    \/ Poll
    \/ Clear
    \/ RenderNextMesh
    \/ DrawTriangleBegin
    \/ ScanlineEnter
    \/ PixelDraw
    \/ ScanlineExit
    \/ TriangleDone
    \/ RenderDone
    \/ Present

Spec == Init /\ [][Next]_vars
SpecTall == InitTall /\ [][Next]_vars

\* =============================================================== claims

\* The least depth among the candidates of a pixel; the reset value if none.
RECURSIVE MinDepth(_)
MinDepth(s) ==
    IF s = <<>> THEN ToFloat(FloatMax)
    ELSE LET m == MinDepth(Tail(s)) IN IF RLt(Head(s).z, m) THEN Head(s).z ELSE m

Prefix(s, k) == [j \in 1 .. k |-> s[j]]

\* C1: in every state, the depth buffer holds at each pixel the least z among
\* the in-viewport candidates submitted at that pixel since the last clear,
\* and the reset value (the float maximum) where none was submitted.
C1_NearestWins == \A i \in Pixels : m_depthBuffer[i] = MinDepth(cands[i])

\* A state in the middle of a frame where one pixel got a farther and then a
\* nearer candidate, and another pixel none.
C1_Witness ==
    /\ pc = "pixel"
    /\ \E i \in Pixels : /\ Len(cands[i]) = 2
                         /\ RLt(cands[i][2].z, cands[i][1].z)
    /\ \E j \in Pixels : cands[j] = <<>> /\ m_depthBuffer[j] = ToFloat(FloatMax)

\* C2: when the candidates submitted at a pixel in one frame have different
\* depths, the colour last forwarded to the surface for that pixel is the
\* colour of the candidate of least depth, in whichever order they came
\* (two candidates, depths 0.3 and 0.7, are the instance the claim names).
C2_NearestColourShown ==
    \A i \in Pixels : \A k \in 1 .. Len(cands[i]) :
        (\A j \in 1 .. Len(cands[i]) : j # k => RLt(cands[i][k].z, cands[i][j].z))
            => surface[i] = cands[i][k].c

\* One frame in which a pixel got the nearer candidate first and another
\* pixel got it last, the two candidates of different colours, and a pixel
\* that got depth 0.7 and then depth 0.3.
C2_Witness ==
    /\ \E i \in Pixels : /\ Len(cands[i]) = 2
                         /\ RLt(cands[i][1].z, cands[i][2].z)
                         /\ cands[i][1].c # cands[i][2].c
                         /\ surface[i] = cands[i][1].c
    /\ \E j \in Pixels : /\ Len(cands[j]) = 2
                         /\ RLt(cands[j][2].z, cands[j][1].z)
                         /\ cands[j][1].c # cands[j][2].c
                         /\ surface[j] = cands[j][2].c

\* C10 as claimed: a candidate whose z equals the stored depth is discarded,
\* so among candidates of one depth at a pixel the first determines the
\* colour and no later one is forwarded.
AllSameDepth(s) == \A j \in 1 .. Len(s) : s[j].z = s[1].z

C10_FirstOfEqualsWins ==
    \A i \in Pixels :
        (Len(cands[i]) >= 2 /\ AllSameDepth(cands[i]))
            => /\ surface[i] = cands[i][1].c
               /\ \A k \in 2 .. Len(cands[i]) : ~cands[i][k].fwd

\* C10 as amended: a candidate whose z equals the depth stored at its pixel
\* is not discarded but replaces the stored sample and is forwarded; among
\* candidates of one depth at a pixel the last one submitted determines the
\* colour, and each of them is forwarded.
C10_LastOfEqualsWins ==
    \A i \in Pixels :
        /\ \A k \in 1 .. Len(cands[i]) :
              cands[i][k].z = MinDepth(Prefix(cands[i], k - 1)) => cands[i][k].fwd
        /\ (Len(cands[i]) >= 1 /\ AllSameDepth(cands[i]))
              => /\ surface[i] = cands[i][Len(cands[i])].c
                 /\ \A k \in 1 .. Len(cands[i]) : cands[i][k].fwd

\* A pixel that got two candidates of one depth and of different colours.
C10_Witness ==
    \E i \in Pixels : /\ Len(cands[i]) = 2
                      /\ cands[i][1].z = cands[i][2].z
                      /\ cands[i][1].c # cands[i][2].c
                      /\ surface[i] = cands[i][2].c

\* C4: the surface calls of a frame are one clear, then the frame's pixel
\* writes, then one present; pixels are written and present is called only
\* after the frame's clear, and the loop is left (or a new frame begun) only
\* with no frame or a presented one behind it.
FrameLogs ==
    {<<>>, <<"clear">>, <<"clear", "draw">>, <<"clear", "present">>,
     <<"clear", "draw", "present">>}

C4_FrameOrder ==
    /\ frameLog \in FrameLogs
    /\ pc \in {"render", "scanline", "pixel", "present"}
          => frameLog \in {<<"clear">>, <<"clear", "draw">>}
    /\ pc \in {"poll", "clear", "exit"}
          => (frameLog = <<>> \/ frameLog[Len(frameLog)] = "present")

\* The loop left on a quit event after a frame that drew pixels.
C4_Witness == pc = "exit" /\ frameLog = <<"clear", "draw", "present">>

\* C5: a candidate outside the viewport never reaches putPixel and changes
\* neither the depth buffer nor the surface; a candidate that reaches
\* putPixel is inside, and putPixel's index is x + y*width of its pixel and
\* lies in 0 .. width*height - 1.
OutOfViewport(p) ==
    \/ RLt(p.x, Zero)
    \/ RLt(p.y, Zero)
    \/ ~RLt(p.x, ToFloat(m_winWidth))
    \/ ~RLt(p.y, ToFloat(m_winHeight))

C5_ViewportSafety ==
    /\ OutOfViewport(lastPoint.p)
          => (~lastPoint.inView /\ lastPoint.idx = -1 /\ ~lastPoint.changed)
    /\ lastPoint.inView
          => /\ lastPoint.idx = Trunc(lastPoint.p.x) + Trunc(lastPoint.p.y) * m_winWidth
             /\ 0 <= lastPoint.idx
             /\ lastPoint.idx < m_winWidth * m_winHeight

\* A candidate of a face with negative X, on a row of the viewport, has just
\* been discarded in a frame in which pixels were written before.
C5_Witness ==
    /\ pc = "pixel"
    /\ RLt(tri.v1.x, Zero)
    /\ OutOfViewport(lastPoint.p)
    /\ RLt(lastPoint.p.y, ToFloat(m_winHeight))
    /\ ~lastPoint.inView
    /\ \E i \in Pixels : cands[i] # <<>>

\* C7: no division of drawTriangle and processScanline has a zero divisor;
\* where the divisor would be zero the inverse slope is 0 and the edge
\* gradient is 1.
C7_NoZeroDivisor ==
    /\ Zero \notin divisors
    /\ pc \in {"scanline", "pixel"}
          => /\ (tri.v2.y = tri.v1.y => tri.dP1P2 = Zero)
             /\ (tri.v3.y = tri.v1.y => tri.dP1P3 = Zero)
    /\ pc = "pixel"
          => /\ (scan.va.y = scan.vb.y => scan.gradient1 = One)
             /\ (scan.vc.y = scan.vd.y => scan.gradient2 = One)

\* A degenerate face (one row) in processScanline, on a zero-width scanline.
C7_Witness ==
    /\ pc = "pixel"
    /\ tri.v1.y = tri.v3.y
    /\ scan.va.y = scan.vb.y
    /\ scan.vc.y = scan.vd.y
    /\ scan.sx = scan.ex
    /\ divisors = {}

\* floor of a rational.
Floor(a) == a[1] \div a[2]

\* The pixels of row yy that the current drawTriangle call submitted.
Row(yy) == {q[1] : q \in {r \in submitted : r[2] = yy}}

Contiguous(S) == \A a \in S : \A b \in S : \A m \in a .. b : m \in S

\* C3: drawTriangle on the face (10,10,0.5), (20,10,0.5), (15,20,0.5) with
\* intensity 1.0 submits a solid wedge: on each row strictly between the top
\* edge and the bottom vertex a non-empty contiguous span between the two
\* slanted edges (x = 10 + (y-10)/2 and x = 20 - (y-10)/2), nothing on row
\* 10, and nothing outside rows 10 .. 20.
C3_ScenarioWedge ==
    (pc = "render" /\ tri.v1 = TScenario.A /\ tri.v2 = TScenario.B /\ tri.v3 = TScenario.C)
        => /\ \A yy \in 11 .. 19 :
                 /\ Row(yy) # {}
                 /\ Contiguous(Row(yy))
                 /\ \A xx \in Row(yy) : 2 * xx + 1 >= 10 + yy /\ 2 * xx <= 50 - yy
           /\ Row(10) = {}
           /\ \A q \in submitted : q[2] \in 10 .. 20

\* C6: when drawTriangle returns it has called processScanline once for each
\* integer y from floor(minY) to floor(maxY) of its vertices, in order, and
\* for no other y: floor(maxY) - floor(minY) + 1 calls.
C6_ScanlineRange ==
    (pc = "render" /\ tri # NoTri)
        => /\ scanCount = Floor(tri.v3.y) - Floor(tri.v1.y) + 1
           /\ scanFirst = Floor(tri.v1.y)
           /\ scanLast = Floor(tri.v3.y)
           /\ scanContig

\* C8: the loops of drawTriangle and processScanline terminate.  Each turn of
\* a loop moves its counter strictly towards the loop's bound: y grows from
\* one scanline to the next, x from one pixel to the next.  (A counter that
\* falls back while the loop goes on brings the loop to a state it has been
\* in, from which it repeats for ever.)
C8_LoopsAdvance ==
    [][/\ (pc = "pixel" /\ pc' = "scanline") => y' > y
       /\ (pc = "pixel" /\ pc' = "pixel") => x' > x]_vars

\* v2 is right (> 0) or left (< 0) of the edge v1-v3.
Side(t) ==
    LET a == RMul(RSub(t.v2.x, t.v1.x), RSub(t.v3.y, t.v1.y))
        b == RMul(RSub(t.v3.x, t.v1.x), RSub(t.v2.y, t.v1.y))
    IN  RSub(a, b)

\* C9: drawTriangle takes its first case exactly when v2 lies right of the
\* edge v1-v3 and its second exactly when v2 lies left of it, and on every
\* scanline the left end is not right of the right end (sx <= ex).
C9_Orientation ==
    /\ pc \in {"scanline", "pixel"}
          => /\ RLt(Zero, Side(tri)) => FirstCase(tri.dP1P2, tri.dP1P3)
             /\ RLt(Side(tri), Zero) => ~FirstCase(tri.dP1P2, tri.dP1P3)
    /\ pc = "pixel" => scan.sx <= scan.ex

====
